---- MODULE Spec2Model ----
(***************************************************************************)
(* A model of dlm4py.py: the complex vector JDVec, the GMRES solver, the   *)
(* restart loop of DLM.setUpSubspace, the secant iteration of               *)
(* DLM.computeFlutterMode, DLM.velocitySweep and the calls that read the   *)
(* reduced model.                                                          *)
(*                                                                         *)
(* Numbers are integers.  A complex number is a record [re, im].  A real   *)
(* vector (the external TACS vector the code works on) is a sequence of    *)
(* VecLen integers; Python's None is the empty sequence.                   *)
(***************************************************************************)
EXTENDS Integers, Sequences, FiniteSets, TLC

\* ------------------------------------------------------------------ bounds
VecLen == 2
MaxVal == 1
MaxSub == 2
MaxM == 3
MaxIters == 2
MaxTol == 1
MaxOmega == 2
MaxP == 1
MaxTolDen == 2
MaxItersArg == 2
MaxModes == 2
MaxVals == 4

\* ------------------------------------------------------ program constants
\* 1e-3, the offset of the second secant seed, is one unit of p
Milli == 1000
\* max_iters as computeFlutterMode sets it before its loop
HardIters == 50
\* max_iters as velocitySweep sets it before each search
SweepIters == 50
\* 0.1, minus the real part of the first seed of a sweep, in units of 1e-3
Tenth == 100
\* 1/1e-6, the relative tolerance of the searches of a sweep
SweepTolDen == 1000000

VARIABLES
    self, vec, alpha, result, self0, vop, vexc, hasZero,
    msub, W, Z, H, res, gb, gx, gmat, gi, gpc, gexc, gline, gret,
    napply, nmult,
    lm, lr, ltol, lmaxit, luse, lenVm, sigma100, li, lsteps, b0, eigvecs,
    omega, vm0, lpc, lexc, lline, lret,
    skind, sroot, szde, stden, smaxarg, smax, seed1, p1, p2, det1, det2,
    det0, sk, nevals, spc, sexc, sret,
    Kr, Qm, Qm_modes, Qm_vwash, Qm_dwash, selfOmega, rslope, Dtrans, temp,
    fcall, rho, Uvals, nmodes, gU, pvals, kmode, si, swpc, swexc, swline,
    sseed1, sseed2, sreads, slast, evalU, sqinf2, written, unconv

vecVars == <<self, vec, alpha, result, self0, vop, vexc>>
gmresVars ==
    <<msub, W, Z, H, res, gb, gx, gmat, gi, gpc, gexc, gline, gret,
      napply, nmult>>
subVars ==
    <<lm, lr, ltol, lmaxit, luse, lenVm, sigma100, li, lsteps, b0, eigvecs,
      omega, vm0, lpc, lexc, lline, lret>>
secVars ==
    <<skind, sroot, szde, stden, smaxarg, smax, seed1, p1, p2, det1, det2,
      det0, sk, nevals, spc, sexc, sret>>
\* the reduced model setUpSubspace leaves on the object
modelVars == <<Kr, Qm, Qm_modes, Qm_vwash, Qm_dwash, selfOmega>>
\* the arguments, locals and trace of a velocitySweep call
sweepVars ==
    <<rho, Uvals, nmodes, pvals, kmode, si, swpc, swexc, swline, sseed1,
      sseed2, sreads, slast, evalU, sqinf2, written, unconv>>
flutVars == <<modelVars, rslope, Dtrans, temp, fcall, gU, sweepVars>>
vars == <<vecVars, hasZero, gmresVars, subVars, secVars, flutVars>>

\* ------------------------------------------------------- complex numbers
Cx(a, b) == [re |-> a, im |-> b]
CZero == Cx(0, 0)
CNeg(a) == Cx(-a.re, -a.im)
Abs(n) == IF n < 0 THEN -n ELSE n

\* --------------------------------------------- the real-vector capability
None == <<>>
Idx == 1..VecLen
Vals == (-MaxVal)..MaxVal
ZeroVec == [i \in Idx |-> 0]

\* The operand vectors: at most one nonzero entry, or all entries equal.
SampleVecs ==
    {[i \in Idx |-> IF i = k THEN v ELSE 0] : k \in Idx, v \in Vals}
    \cup {[i \in Idx |-> v] : v \in Vals}

RECURSIVE SumTo(_, _, _)
SumTo(x, y, n) == IF n = 0 THEN 0 ELSE x[n] * y[n] + SumTo(x, y, n - 1)

\* x.dot(y) of two real vectors
RDot(x, y) == SumTo(x, y, VecLen)

\* y.axpy(a, x): y <- y + a*x
RAxpy(y, a, x) == [i \in Idx |-> y[i] + a * x[i]]

\* x.scale(num/den); the quotient is exact for the vectors scaled here
RScale(x, num, den) == [i \in Idx |-> (x[i] * num) \div den]

\* An absent imaginary part read as the zero vector
Im0(x) == IF x = None THEN ZeroVec ELSE x

\* ------------------------------------------------------------------ JDVec
JDVec(xr, xc) == [xr |-> xr, xc |-> xc]
JDVecs == {JDVec(xr, xc) : xr \in SampleVecs, xc \in SampleVecs \cup {None}}

\* The outcome of a method call: the receiver afterwards and the exception
\* raised, "" when the call returned.
Out(v, e) == [v |-> v, exc |-> e]

\* JDVec.dot with the sign of the imaginary part changed in the branch for a
\* real-only argument
JDotSignSlip(s, v) ==
    IF s.xc = None /\ v.xc = None THEN Cx(RDot(s.xr, v.xr), 0)
    ELSE IF s.xc = None THEN Cx(RDot(s.xr, v.xr), RDot(s.xr, v.xc))
    ELSE IF v.xc = None THEN Cx(RDot(s.xr, v.xr), RDot(s.xc, v.xr))
    ELSE Cx(RDot(s.xr, v.xr) + RDot(s.xc, v.xc),
            RDot(s.xr, v.xc) - RDot(s.xc, v.xr))

\* JDVec.dot with the product of the imaginary parts subtracted
JDotNoConj(s, v) ==
    IF s.xc = None /\ v.xc = None THEN Cx(RDot(s.xr, v.xr), 0)
    ELSE IF s.xc = None THEN Cx(RDot(s.xr, v.xr), RDot(s.xr, v.xc))
    ELSE IF v.xc = None THEN Cx(RDot(s.xr, v.xr), -RDot(s.xc, v.xr))
    ELSE Cx(RDot(s.xr, v.xr) - RDot(s.xc, v.xc),
            RDot(s.xr, v.xc) - RDot(s.xc, v.xr))

\* JDVec.dot(self, vec)
JDot(s, v) ==
    IF s.xc = None /\ v.xc = None THEN Cx(RDot(s.xr, v.xr), 0)
    ELSE IF s.xc = None THEN Cx(RDot(s.xr, v.xr), RDot(s.xr, v.xc))
    ELSE IF v.xc = None THEN Cx(RDot(s.xr, v.xr), -RDot(s.xc, v.xr))
    ELSE Cx(RDot(s.xr, v.xr) + RDot(s.xc, v.xc),
            RDot(s.xr, v.xc) - RDot(s.xc, v.xr))

\* JDVec.axpy(self, alpha, vec), statement by statement: a method call on a
\* missing imaginary part (None) raises AttributeError and leaves what the
\* earlier statements wrote.
JAxpy(s, a, v) ==
    LET s1 == JDVec(RAxpy(s.xr, a.re, v.xr), s.xc)
    IN  IF a.im # 0 /\ s1.xc = None THEN Out(s1, "AttributeError")
        ELSE
        LET s2 == IF a.im # 0 THEN JDVec(s1.xr, RAxpy(s1.xc, a.im, v.xr)) ELSE s1
        IN  IF v.xc = None THEN Out(s2, "")
            ELSE IF s2.xc = None THEN Out(s2, "AttributeError")
            ELSE
            LET s3 == JDVec(s2.xr, RAxpy(s2.xc, a.re, v.xc))
            IN  IF a.im # 0
                THEN Out(JDVec(RAxpy(s3.xr, -a.im, v.xc), s3.xc), "")
                ELSE Out(s3, "")

\* JDVec.copy(self, vec); hz says whether the real-vector type has a method
\* named zero (the code calls zeroEntries everywhere else).
JCopy(s, v, hz) ==
    LET s1 == JDVec(v.xr, s.xc)
    IN  IF s1.xc = None THEN Out(s1, "AttributeError")
        ELSE IF v.xc # None THEN Out(JDVec(s1.xr, v.xc), "")
        ELSE IF hz THEN Out(JDVec(s1.xr, ZeroVec), "")
        ELSE Out(s1, "AttributeError")

\* JDVec.scale(self, alpha) with alpha.real = num/den
JScale(s, num, den) ==
    JDVec(RScale(s.xr, num, den),
          IF s.xc # None THEN RScale(s.xc, num, den) ELSE None)

\* ======================================================================
\* JDVec calls: one call of dot, copy or axpy on a pair of distinct vectors,
\* and the sequence v.axpy(alpha, w); v.axpy(-alpha, w).
\* ======================================================================
Alphas == {Cx(a, b) : a \in -1..1, b \in -1..1}

GmresIdle ==
    /\ msub = 0 /\ W = <<>> /\ Z = <<>> /\ H = <<>> /\ res = <<>>
    /\ gb = JDVec(ZeroVec, None) /\ gx = JDVec(ZeroVec, None)
    /\ gmat = "id" /\ gi = 0 /\ gpc = "idle"
    /\ gexc = "" /\ gline = 0 /\ gret = -1 /\ napply = 0 /\ nmult = 0

\* Complex numbers that may be not-a-number (numpy's result of x/0)
CN(a, b) == [re |-> a, im |-> b, nan |-> FALSE]
NaN == [re |-> 0, im |-> 0, nan |-> TRUE]

\* No root search in progress
SecIdle ==
    /\ skind = "linear" /\ sroot = CN(0, 0) /\ szde = FALSE /\ stden = 1
    /\ smaxarg = 0 /\ smax = 0 /\ seed1 = CN(0, 0) /\ p1 = CN(0, 0)
    /\ p2 = CN(0, 0) /\ det1 = CN(0, 0) /\ det2 = CN(0, 0)
    /\ det0 = CN(0, 0) /\ sk = 0 /\ nevals = 0 /\ spc = "idle"
    /\ sexc = "" /\ sret = CN(0, 0)

\* DLM.__init__: no subspace yet (Vm is None)
SubIdle ==
    /\ lm = 0 /\ lr = 0 /\ ltol = 0 /\ lmaxit = 0 /\ luse = FALSE
    /\ lenVm = 0 /\ sigma100 = 0 /\ li = 0 /\ lsteps = 0 /\ b0 = 0
    /\ eigvecs = <<>> /\ omega = <<>> /\ vm0 = <<>> /\ lpc = "idle"
    /\ lexc = "" /\ lline = 0 /\ lret = ""

\* No reduced model, no call on it
NoCall == [op |-> "", exc |-> "", F |-> <<>>, val |-> CN(0, 0)]
NoDtrans == [set |-> FALSE, U |-> 0]
NoSample == [k |-> 0, i |-> 0]
SweepIdle ==
    /\ rho = 0 /\ Uvals = <<>> /\ nmodes = 0 /\ pvals = <<>>
    /\ kmode = 0 /\ si = 0 /\ swpc = "idle" /\ swexc = "" /\ swline = 0
    /\ sseed1 = CN(0, 0) /\ sseed2 = CN(0, 0) /\ sreads = {}
    /\ slast = NoSample /\ evalU = {} /\ sqinf2 = 0 /\ written = {}
    /\ unconv = {}
FlutIdle ==
    /\ Kr = <<>> /\ Qm = <<>> /\ Qm_modes = <<>> /\ Qm_vwash = <<>>
    /\ Qm_dwash = <<>> /\ selfOmega = <<>> /\ rslope = 0
    /\ Dtrans = NoDtrans /\ temp = "" /\ fcall = NoCall
    /\ gU = [bound |-> FALSE, val |-> <<>>]
    /\ SweepIdle

InitVec ==
    /\ self \in JDVecs
    /\ vec \in JDVecs
    /\ alpha = CZero
    /\ result = CZero
    /\ self0 = self
    /\ vop = "none"
    /\ vexc = ""
    /\ hasZero = FALSE
    /\ GmresIdle
    /\ SubIdle
    /\ SecIdle
    /\ FlutIdle

\* result = self.dot(vec)
CallDot ==
    /\ vop = "none"
    /\ result' = JDot(self, vec)
    /\ vop' = "dot"
    /\ UNCHANGED <<flutVars, self, vec, alpha, self0, vexc, hasZero, gmresVars,
                   subVars, secVars>>

\* self.copy(vec), on a real-vector type with or without a method zero
CallCopy ==
    /\ vop = "none"
    /\ \E hz \in BOOLEAN :
         /\ hasZero' = hz
         /\ LET o == JCopy(self, vec, hz)
            IN  self' = o.v /\ vexc' = o.exc
    /\ vop' = "copy"
    /\ UNCHANGED <<flutVars,
                   vec, alpha, result, self0, gmresVars, subVars, secVars>>

\* self.axpy(a, vec)
CallAxpy ==
    /\ vop = "none"
    /\ \E a \in Alphas :
         /\ alpha' = a
         /\ LET o == JAxpy(self, a, vec)
            IN  self' = o.v /\ vexc' = o.exc
    /\ vop' = "axpy"
    /\ UNCHANGED <<flutVars,
                   vec, result, self0, hasZero, gmresVars, subVars, secVars>>

\* the second statement of v.axpy(alpha, w); v.axpy(-alpha, w): reached
\* only when the first call returned
CallAxpyBack ==
    /\ vop = "axpy"
    /\ vexc = ""
    /\ LET o == JAxpy(self, CNeg(alpha), vec)
       IN  self' = o.v /\ vexc' = o.exc
    /\ vop' = "axpy2"
    /\ UNCHANGED <<flutVars,
                   vec, alpha, result, self0, hasZero, gmresVars, subVars,
                   secVars>>

NextVec == CallDot \/ CallCopy \/ CallAxpy \/ CallAxpyBack

SpecVec == InitVec /\ [][NextVec]_vars

\* ---------------------------------------------------- JDVec: the claims
\* <s, v> = s^H v written out once, with absent parts as zero
Hermitian(s, v) ==
    Cx(RDot(s.xr, v.xr) + RDot(Im0(s.xc), Im0(v.xc)),
       RDot(s.xr, Im0(v.xc)) - RDot(Im0(s.xc), v.xr))

\* s + a*v as complex vectors, with absent parts as zero
ComplexSum(s, a, v) ==
    [xr |-> [i \in Idx |-> s.xr[i] + a.re * v.xr[i] - a.im * Im0(v.xc)[i]],
     xc |-> [i \in Idx |-> Im0(s.xc)[i] + a.im * v.xr[i] + a.re * Im0(v.xc)[i]]]

\* C1: in all four combinations of present and absent imaginary parts,
\* self.dot(vec) is the Hermitian inner product
\* (xr.yr + xc.yc) + i (xr.yc - xc.yr).
C1_DotIsHermitian ==
    vop = "dot" => result = Hermitian(self, vec)

\* C1 witness: a dot of a complex self with a real-only vec whose imaginary
\* part is not zero.
C1_Witness ==
    /\ vop = "dot"
    /\ self.xc # None
    /\ vec.xc = None
    /\ result.im # 0

C2Self == JDVec(<<1, 0>>, <<0, 1>>)
C2Other == JDVec(<<1, 0>>, <<0, -1>>)

\* C2 as stated: dot of (real [1,0], imag [0,1]) with (real [1,0],
\* imag [0,-1]) is 1 + 1i.
C2_DotIsOnePlusI ==
    (vop = "dot" /\ self = C2Self /\ vec = C2Other) => result = Cx(1, 1)

\* C2 amended: that dot is 0 + 0i (real part 1*1 + 1*(-1), imaginary part
\* 0 - 0).
C2_DotIsZero ==
    (vop = "dot" /\ self = C2Self /\ vec = C2Other) => result = Cx(0, 0)

\* C2 witness: the dot of exactly these two vectors has been taken.
C2_Witness ==
    vop = "dot" /\ self = C2Self /\ vec = C2Other

\* C3: self.axpy(alpha, vec) completes and leaves self = self + alpha*vec
\* as complex vectors, whether or not self and vec have an imaginary part.
C3_AxpyCompletes ==
    vop = "axpy" =>
        /\ vexc = ""
        /\ self.xr = ComplexSum(self0, alpha, vec).xr
        /\ Im0(self.xc) = ComplexSum(self0, alpha, vec).xc

\* The sequence v.axpy(alpha, w); v.axpy(-alpha, w) is over: the second call
\* has ended, or the first one raised.
RoundTripOver == vop = "axpy2" \/ (vop = "axpy" /\ vexc # "")

\* C4: for nonzero alpha and nonzero w, v.axpy(alpha, w); v.axpy(-alpha, w)
\* restores the real and imaginary values of v.
C4_AxpyRoundTrip ==
    (/\ RoundTripOver
     /\ alpha # CZero
     /\ (vec.xr # ZeroVec \/ Im0(vec.xc) # ZeroVec))
    => self = self0

\* C5: copy sets self.real to vec.real, self.imag to vec.imag or to zero,
\* and completes without error when self has no imaginary slot, leaving it
\* absent.
C5_CopyTotal ==
    vop = "copy" =>
        /\ vexc = ""
        /\ self.xr = vec.xr
        /\ self.xc = (IF self0.xc = None THEN None ELSE Im0(vec.xc))

\* ======================================================================
\* GMRES: the constructor and solve(b, x), one action per block of solve.
\* ======================================================================
VecIdle ==
    /\ self = JDVec(ZeroVec, None) /\ vec = JDVec(ZeroVec, None)
    /\ alpha = CZero /\ result = CZero /\ self0 = JDVec(ZeroVec, None)
    /\ vop = "none" /\ vexc = ""

\* np.sqrt of a non-negative real, rounded down; exact on the squares that
\* the right-hand sides below produce
ISqrt(n) == CHOOSE k \in 0..n : k * k <= n /\ n < (k + 1) * (k + 1)

\* The operators handed to the constructor as mat: mat.mult(x, y) writes
\* A*x into y, part by part.
MatKinds == {"id", "swap", "ones", "diag"}
MatApply(kind, x) ==
    [i \in Idx |->
        CASE kind = "id" -> x[i]
          [] kind = "swap" -> x[(i % VecLen) + 1]
          [] kind = "ones" -> SumTo(x, [k \in Idx |-> 1], VecLen)
          [] OTHER -> i * x[i]]
MatMult(kind, x) ==
    JDVec(MatApply(kind, x.xr),
          IF x.xc = None THEN None ELSE MatApply(kind, x.xc))

\* pc.apply(x, y): the identity preconditioner
PcApply(x) == x

\* Right-hand sides: nonzero, and of a norm that divides their entries, so
\* that b/|b| is a vector of integers
Rhs ==
    {b \in JDVecs :
        LET n == ISqrt(JDot(b, b).re)
        IN  /\ n > 0
            /\ n * n = JDot(b, b).re
            /\ \A i \in Idx : b.xr[i] % n = 0 /\ Im0(b.xc)[i] % n = 0}

HIndex(m) == (0..m) \X (0..(m - 1))

\* GMRES.__init__(mat, pc, msub): H, res zeroed, W and Z left empty
InitGmres ==
    /\ msub \in 1..MaxSub
    /\ gmat \in MatKinds
    /\ W = <<>>
    /\ Z = <<>>
    /\ H = [rc \in HIndex(msub) |-> CZero]
    /\ res = [k \in 0..msub |-> CZero]
    /\ gb \in Rhs
    /\ gx \in {JDVec(ZeroVec, None), JDVec(ZeroVec, ZeroVec)}
    /\ gi = 0
    /\ gpc = "constructed"
    /\ gexc = ""
    /\ gline = 0
    /\ gret = -1
    /\ napply = 0
    /\ nmult = 0
    /\ hasZero \in BOOLEAN
    /\ VecIdle
    /\ SubIdle
    /\ SecIdle
    /\ FlutIdle

\* Nothing in the class fills W and Z; the owner of the object appends the
\* msub+1 and msub work vectors, with or without imaginary parts.
FillSubspace ==
    /\ gpc = "constructed"
    /\ W = <<>>
    /\ \E cplx \in BOOLEAN :
         LET w == JDVec(ZeroVec, IF cplx THEN ZeroVec ELSE None)
         IN  /\ W' = [k \in 1..(msub + 1) |-> w]
             /\ Z' = [k \in 1..msub |-> w]
    /\ UNCHANGED <<flutVars,
                   vecVars, subVars, secVars, hasZero, msub, H, res, gb, gx,
                   gmat, gi, gpc, gexc, gline, gret, napply, nmult>>

Raise(line, exc) ==
    /\ gpc' = "raised"
    /\ gexc' = exc
    /\ gline' = line

\* solve, lines 144-146: W[0].copy(b); res[0] = sqrt(W[0].dot(W[0]));
\* W[0].scale(1.0/res[0])
SolveInit ==
    /\ gpc = "constructed"
    /\ IF Len(W) = 0
       THEN /\ Raise(144, "IndexError")
            /\ UNCHANGED <<W, res>>
       ELSE LET o == JCopy(W[1], gb, hasZero)
                n == ISqrt(JDot(o.v, o.v).re)
            IN  IF o.exc # ""
                THEN /\ Raise(IF gb.xc # None THEN 35 ELSE 37, o.exc)
                     /\ W' = [W EXCEPT ![1] = o.v]
                     /\ UNCHANGED res
                ELSE /\ res' = [res EXCEPT ![0] = Cx(n, 0)]
                     /\ W' = [W EXCEPT ![1] = JScale(o.v, 1, n)]
                     /\ gpc' = "apply"
                     /\ UNCHANGED <<gexc, gline>>
    /\ UNCHANGED <<flutVars,
                   vecVars, subVars, secVars, hasZero, msub, Z, H, gb, gx,
                   gmat, gi, gret, napply, nmult>>

\* solve, lines 151-154 of step gi: pc.apply(W[i], Z[i]);
\* mat.mult(Z[i], W[i+1])
ArnoldiApply ==
    /\ gpc = "apply"
    /\ gi < msub
    /\ LET z == PcApply(W[gi + 1])
       IN  /\ Z' = [Z EXCEPT ![gi + 1] = z]
           /\ W' = [W EXCEPT ![gi + 2] = MatMult(gmat, z)]
    /\ napply' = napply + 1
    /\ nmult' = nmult + 1
    /\ gpc' = "mgs"
    /\ UNCHANGED <<flutVars,
                   vecVars, subVars, secVars, hasZero, msub, H, res, gb, gx,
                   gmat, gi, gexc, gline, gret>>

\* lines 157-159 from index j on: H[j,i] = W[j].dot(W[i+1]);
\* W[i+1].axpy(-H[j,i], W[j])
RECURSIVE Mgs(_, _, _, _)
Mgs(w, h, i, j) ==
    IF j > i THEN [W |-> w, H |-> h, exc |-> ""]
    ELSE LET hji == JDot(w[j + 1], w[i + 2])
             h1 == [h EXCEPT ![<<j, i>>] = hji]
             o == JAxpy(w[i + 2], CNeg(hji), w[j + 1])
             w1 == [w EXCEPT ![i + 2] = o.v]
         IN  IF o.exc # "" THEN [W |-> w1, H |-> h1, exc |-> o.exc]
             ELSE Mgs(w1, h1, i, j + 1)

\* solve, lines 157-159 of step gi: modified Gram-Schmidt
GramSchmidt ==
    /\ gpc = "mgs"
    /\ LET o == Mgs(W, H, gi, 0)
       IN  /\ W' = o.W
           /\ H' = o.H
           /\ IF o.exc # "" THEN Raise(159, o.exc)
              ELSE gpc' = "norm" /\ UNCHANGED <<gexc, gline>>
    /\ UNCHANGED <<flutVars,
                   vecVars, subVars, secVars, hasZero, msub, Z, res, gb, gx,
                   gmat, gi, gret, napply, nmult>>

\* solve, lines 163-164 of step gi: H[i+1,i] = sqrt(W[i+1].dot(W[i+1])),
\* then the argument 1.0/H[i+1,i] of scale names H, which is neither a
\* local nor a global of the module: NameError, before the division.  The
\* rest of solve (the rotations, res[i] and niters, which are unbound names
\* too, the back substitution, x and the return) is never reached.
Normalize ==
    /\ gpc = "norm"
    /\ H' = [H EXCEPT ![<<gi + 1, gi>>] =
                Cx(ISqrt(JDot(W[gi + 2], W[gi + 2]).re), 0)]
    /\ Raise(164, "NameError")
    /\ UNCHANGED <<flutVars,
                   vecVars, subVars, secVars, hasZero, msub, W, Z, res, gb,
                   gx, gmat, gi, gret, napply, nmult>>

NextGmres ==
    FillSubspace \/ SolveInit \/ ArnoldiApply \/ GramSchmidt \/ Normalize

SpecGmres == InitGmres /\ [][NextGmres]_vars

\* -------------------------------------------------- GMRES: the claims
\* solve has ended, by a return or by an exception
SolveEnded == gpc \in {"returned", "raised"}

\* C6: solve(b, x) on a GMRES of subspace size m >= 1 and nonzero b performs
\* exactly m Arnoldi steps (m preconditioner and m operator applications,
\* W of m+1 and Z of m vectors) and returns m.
C6_SolveRunsMSteps ==
    SolveEnded =>
        /\ gexc = ""
        /\ gret = msub
        /\ napply = msub
        /\ nmult = msub
        /\ Len(W) = msub + 1
        /\ Len(Z) = msub

\* C7: when the norm H[i+1,i] of the orthogonalized vector is zero, solve
\* reports Breakdown instead of dividing by it.
C7_BreakdownReported ==
    (SolveEnded /\ gline = 164 /\ H[<<gi + 1, gi>>] = CZero)
    => gexc = "Breakdown"

\* ======================================================================
\* DLM.setUpSubspace: the allocation of Vm, the restart loop around
\* lanczos, and the construction of the reduced model.
\* ======================================================================
Perms(n) ==
    {p \in [1..n -> 1..n] : \A i, j \in 1..n : p[i] = p[j] => i = j}

\* What dlm.tridiageigvecs can write into eigvecs, over the integers:
\* orthonormal matrices, here the permutation matrices with one sign for
\* all rows.  Row j is eigenvector j.
Eigvecs(n) ==
    {[i \in 1..n |-> [j \in 1..n |-> IF p[i] = j THEN sg ELSE 0]] :
        p \in Perms(n), sg \in {-1, 1}}

\* What np.sqrt(1.0/alpha + sigma) can be before it is sorted: n distinct
\* consecutive frequencies, in increasing or in decreasing order
RawOmegas(n) ==
    {[i \in 1..n |-> IF up THEN i + k ELSE n + 1 - i + k] :
        up \in BOOLEAN, k \in 0..(MaxOmega - 1)}

\* beta[-1], a norm: not negative
Betas == 0..(MaxTol + 1)

\* np.argsort(omega): the index arrays that put omega in ascending order
ArgSorts(om, n) ==
    {p \in Perms(n) : \A i \in 1..(n - 1) : om[p[i]] <= om[p[i + 1]]}

\* lines 619-622 with the comparison >= in place of >
ConvrgStrict(b, E, r, tol) ==
    \A j \in 1..r : ~(Abs(b * E[j][Len(E[j])]) >= tol)

\* lines 619-622: convrg stays True unless fabs(b0*eigvecs[j,-1]) > tol for
\* some j < r
Convrg(b, E, r, tol) ==
    \A j \in 1..r : ~(Abs(b * E[j][Len(E[j])]) > tol)

\* line 628, in hundredths: sigma = 0.95*omega[0]**2
BetterSigma(om) == 95 * om[1] * om[1]

\* line 631: weights = np.sum(eigvecs[:r,:], axis=0)
RECURSIVE ColSum(_, _, _)
ColSum(E, r, j) == IF r = 0 THEN 0 ELSE E[r][j] + ColSum(E, r - 1, j)
Weights(E, r) == [j \in 1..Len(E) |-> ColSum(E, r, j)]

\* lines 632-634 on the coefficients of Vm[0] over the basis of the pass
\* (Vm[0] is the first basis vector, c = <<1, 0, ...>>): scale by
\* weights[0], then axpy(weights[j], Vm[j]) for j = 0..m-2, where j = 0 adds
\* weights[0] times the vector to itself.
Restart(w, nvm, m) ==
    LET c0 == w[1]
        c1 == c0 + w[1] * c0
    IN  [j \in 1..nvm |->
            IF j = 1 THEN c1
            ELSE IF j <= m - 1 THEN w[j]
            ELSE 0]

InitSub ==
    /\ SubIdle
    /\ hasZero = FALSE
    /\ VecIdle
    /\ GmresIdle
    /\ SecIdle
    /\ FlutIdle

\* setUpSubspace(m, r, sigma, tol, max_iters, use_modes), lines 569-597,
\* called on an instance that may have been set up before: Vm grows to m
\* vectors and never shrinks, Vm[0] is randomised, eigvecs is allocated,
\* the locals of the call are fresh.
SetUpBegin ==
    /\ lpc \in {"idle", "returned", "raised"}
    /\ \E m \in 2..MaxM, tol \in 0..MaxTol, mi \in 0..MaxIters :
         /\ \E r \in 1..(m - 1) : lr' = r
         /\ lm' = m
         /\ ltol' = tol
         /\ lmaxit' = mi
         /\ sigma100' = 0
         /\ lenVm' = IF lenVm < m THEN m ELSE lenVm
         /\ eigvecs' = [i \in 1..(m - 1) |-> [j \in 1..(m - 1) |-> 0]]
    /\ li' = 0
    /\ vm0' = <<>>
    /\ lpc' = "loop"
    /\ luse' = FALSE /\ lsteps' = 0 /\ b0' = 0 /\ omega' = <<>>
    /\ lexc' = "" /\ lline' = 0 /\ lret' = ""
    /\ UNCHANGED <<flutVars, vecVars, secVars, hasZero, gmresVars>>

\* One pass of the loop, lines 598-636: lanczos runs len(Vm)-1 steps and
\* returns alpha and beta of that length, the tridiagonal solver returns
\* the eigenvectors, omega and eigvecs are sorted, the r lowest modes are
\* tested; on success the loop is left, otherwise sigma and Vm[0] are reset
\* for the next pass.  When Vm is longer than m (left by an earlier call)
\* alpha and omega are longer than the m-1 rows of eigvecs: the solver
\* wrapper rejects the arrays at line 605, or eigvecs[indices,:] raises
\* IndexError at line 616.
LanczosPass ==
    /\ lpc = "loop"
    /\ li < lmaxit
    /\ IF lenVm > lm
       THEN /\ lpc' = "raised"
            /\ \E ln \in {605, 616} :
                 /\ lline' = ln
                 /\ lexc' = IF ln = 605 THEN "error" ELSE "IndexError"
            /\ UNCHANGED <<b0, omega, eigvecs, vm0, sigma100>>
       ELSE /\ \E b \in Betas, E \in Eigvecs(lm - 1),
                  om \in RawOmegas(lm - 1) :
                 \E ix \in ArgSorts(om, lm - 1) :
                    LET oms == [k \in 1..(lm - 1) |-> om[ix[k]]]
                        Es == [k \in 1..(lm - 1) |-> E[ix[k]]]
                    IN  /\ b0' = b
                        /\ omega' = oms
                        /\ eigvecs' = Es
                        /\ IF Convrg(b, Es, lr, ltol)
                           THEN /\ lpc' = "after"
                                /\ vm0' = [j \in 1..lenVm |->
                                              IF j = 1 THEN 1 ELSE 0]
                                /\ UNCHANGED sigma100
                           ELSE /\ lpc' = "loop"
                                /\ sigma100' = BetterSigma(oms)
                                /\ vm0' = Restart(Weights(Es, lr), lenVm, lm)
            /\ UNCHANGED <<lexc, lline>>
    /\ lsteps' = lenVm - 1
    /\ li' = li + 1
    /\ UNCHANGED <<flutVars, vecVars, secVars, hasZero, gmresVars, lm, lr, ltol,
                   lmaxit, luse, lenVm, lret>>

\* xrange(max_iters) is exhausted
LoopExhausted ==
    /\ lpc = "loop"
    /\ li >= lmaxit
    /\ lpc' = "after"
    /\ UNCHANGED <<flutVars, vecVars, secVars, hasZero, gmresVars, lm, lr, ltol,
                   lmaxit, luse, lenVm, sigma100, li, lsteps, b0, eigvecs,
                   omega, vm0, lexc, lline, lret>>

\* len(self.Qm) once the reduced model is built: r eigenvector combinations
\* (lines 641-651), or Vm itself (line 670)
LenQm == IF luse THEN lr ELSE lenVm

\* lines 638-697, where the argument use_modes is first read: Qm and Kr are
\* built (r eigenvector combinations, or Vm itself), omega[:r] is stored and
\* the method returns None.  With no pass made, omega is an unbound local:
\* NameError at its first use.
BuildReducedModel ==
    /\ lpc = "after"
    /\ \E um \in BOOLEAN :
         /\ luse' = um
         /\ IF li = 0
            THEN /\ lpc' = "raised"
                 /\ lexc' = "NameError"
                 /\ lline' = IF um THEN 658 ELSE 693
                 /\ UNCHANGED lret
            ELSE /\ lpc' = "returned"
                 /\ lret' = "None"
                 /\ UNCHANGED <<lexc, lline>>
    /\ UNCHANGED <<flutVars,
                   vecVars, secVars, hasZero, gmresVars, lm, lr, ltol, lmaxit,
                   lenVm, sigma100, li, lsteps, b0, eigvecs, omega, vm0>>

NextSub == SetUpBegin \/ LanczosPass \/ LoopExhausted \/ BuildReducedModel

SpecSub == InitSub /\ [][NextSub]_vars

\* ------------------------------------------ setUpSubspace: the claims
\* Every one of the r lowest modes of the last pass meets the tolerance.
AllWithinTol ==
    \A j \in 1..lr : Abs(b0 * eigvecs[j][lm - 1]) <= ltol

\* C8: at most max_iters passes are made; the loop is left right after the
\* first pass whose r lowest modes all satisfy |b0*eigvecs[j,last]| <= tol;
\* after a pass in which a mode fails, sigma is 0.95*omega[0]^2 before the
\* next pass.
C8_RestartLoop ==
    /\ li <= lmaxit
    /\ (li > 0 /\ AllWithinTol) => lpc # "loop"
    /\ (li > 0 /\ lpc = "loop") =>
          (~AllWithinTol /\ sigma100 = 95 * omega[1] * omega[1])

\* C8 witness: a second pass has converged after a first one that failed
\* and reset sigma.
C8_Witness ==
    /\ li = 2
    /\ lpc = "after"
    /\ AllWithinTol
    /\ b0 > ltol
    /\ sigma100 = 95 * 4

\* C9: when all max_iters passes are used without convergence,
\* setUpSubspace reports NonConvergence to its caller.
C9_NonConvergenceReported ==
    (lpc = "returned" /\ li = lmaxit /\ ~AllWithinTol)
    => lret = "NonConvergence"

\* C17: after a pass that does not converge, the restart vector Vm[0] is
\* the sum of weights[j]*Vm[j] over j = 0..m-2; the coefficient of the old
\* Vm[0] is weights[0].
C17_RestartIsWeightedSum ==
    (lpc = "loop" /\ li > 0) =>
        vm0 = [j \in 1..lenVm |->
                  IF j <= lm - 1 THEN Weights(eigvecs, lr)[j] ELSE 0]

\* C18: in every call of a sequence of calls with varying m, Vm holds at
\* most m vectors and each Lanczos pass makes m-1 steps, which is the
\* length of alpha and beta.
C18_BasisMatchesM ==
    lpc # "idle" =>
        /\ lenVm <= lm
        /\ li > 0 => lsteps = lm - 1

\* C19: on a return with use_modes false, Vm[0] (which is Qm[0]) is the
\* first basis vector as the last Lanczos pass left it, also when the loop
\* ended at max_iters without convergence.
C19_BasisUntouched ==
    (lpc = "returned" /\ ~luse) =>
        vm0 = [j \in 1..lenVm |-> IF j = 1 THEN 1 ELSE 0]

\* ======================================================================
\* DLM.computeFlutterMode: the seeds and the two-point secant iteration.
\* p is counted in units of 1e-3.
\* ======================================================================
NSub(x, y) ==
    IF x.nan \/ y.nan THEN NaN ELSE CN(x.re - y.re, x.im - y.im)
NMul(x, y) ==
    IF x.nan \/ y.nan THEN NaN
    ELSE CN(x.re * y.re - x.im * y.im, x.re * y.im + x.im * y.re)
IsZero(x) == ~x.nan /\ x.re = 0 /\ x.im = 0
\* x/y for y # 0; the quotients of the iteration on a linear determinant
\* are exact
NDiv(x, y) ==
    IF x.nan \/ y.nan \/ IsZero(y) THEN NaN
    ELSE LET d == y.re * y.re + y.im * y.im
         IN  CN((x.re * y.re + x.im * y.im) \div d,
                (x.im * y.re - x.re * y.im) \div d)
Norm2(x) == x.re * x.re + x.im * x.im

\* abs(x) < tol*abs(y) with tol = 1/tden; a comparison with nan is False
AbsLess(x, tden, y) ==
    IF x.nan \/ y.nan THEN FALSE
    ELSE Norm2(x) * tden * tden < Norm2(y)

\* The determinant the search runs on: p - root, or the constant root
FlutterDet(kind, root, p) ==
    IF p.nan THEN NaN
    ELSE IF kind = "linear" THEN NSub(p, root)
    ELSE root

\* line 898 with the two points exchanged in the numerator
SecantSwapped(q1, q2, d1, d2) ==
    NDiv(NSub(NMul(q1, d1), NMul(q2, d2)), NSub(d1, d2))

\* line 898: pnew = (p2*det1 - p1*det2)/(det1 - det2)
SecantNew(q1, q2, d1, d2) ==
    NDiv(NSub(NMul(q2, d1), NMul(q1, d2)), NSub(d1, d2))

PGrid == {CN(a, b) : a \in (-MaxP)..MaxP, b \in (-MaxP)..MaxP}

InitSecant ==
    /\ SecIdle
    /\ hasZero = FALSE
    /\ VecIdle
    /\ GmresIdle
    /\ SubIdle
    /\ FlutIdle

\* computeFlutterMode(rho, Uval, Mach, kmode, pinit, max_iters, tol), lines
\* 872-895: the two seeds, their determinants, max_iters reset to 50,
\* det0 = det1
SecantBegin ==
    /\ spc = "idle"
    /\ \E kind \in {"linear", "const"}, root \in PGrid, zde \in BOOLEAN,
          td \in 1..MaxTolDen, mi \in 0..MaxItersArg,
          usePinit \in BOOLEAN, pinit \in PGrid, om \in 1..MaxOmega :
         LET q1 == IF usePinit THEN pinit ELSE CN(-Milli, Milli * om)
             q2 == IF usePinit THEN CN(pinit.re, pinit.im + 1)
                   ELSE CN(-Milli, 1 + Milli * om)
         IN  /\ skind' = kind
             /\ sroot' = root
             /\ szde' = zde
             /\ stden' = td
             /\ smaxarg' = mi
             /\ seed1' = q1
             /\ p1' = q1
             /\ p2' = q2
             /\ det1' = FlutterDet(kind, root, q1)
             /\ det2' = FlutterDet(kind, root, q2)
             /\ det0' = FlutterDet(kind, root, q1)
    /\ smax' = HardIters
    /\ nevals' = 2
    /\ sk' = 0
    /\ spc' = "iter"
    /\ UNCHANGED <<flutVars, vecVars, hasZero, gmresVars, subVars, sexc, sret>>

\* One iteration of the loop, lines 896-921, and the return of line 923
\* when the test of line 920 breaks or xrange(max_iters) ends.  A zero
\* denominator raises ZeroDivisionError when the determinants are Python
\* complex numbers and gives nan when they are numpy's.
SecantStep ==
    /\ spc = "iter"
    /\ sk < smax
    /\ IF szde /\ IsZero(NSub(det1, det2))
       THEN /\ spc' = "raised"
            /\ sexc' = "ZeroDivisionError"
            /\ UNCHANGED <<p1, p2, det1, det2, sk, nevals, sret>>
       ELSE LET pnew == SecantNew(p1, p2, det1, det2)
                dnew == FlutterDet(skind, sroot, pnew)
            IN  /\ p1' = p2
                /\ det1' = det2
                /\ p2' = pnew
                /\ det2' = dnew
                /\ nevals' = nevals + 1
                /\ sk' = sk + 1
                /\ IF AbsLess(dnew, stden, det0) \/ sk + 1 >= smax
                   THEN spc' = "returned" /\ sret' = pnew
                   ELSE spc' = "iter" /\ UNCHANGED sret
                /\ UNCHANGED sexc
    /\ UNCHANGED <<flutVars,
                   vecVars, hasZero, gmresVars, subVars, skind, sroot, szde,
                   stden, smaxarg, smax, seed1, det0>>

NextSecant == SecantBegin \/ SecantStep

SpecSecant == InitSecant /\ [][NextSecant]_vars

\* --------------------------------------- computeFlutterMode: the claims
\* C10 as stated: on det(p) = p - p0 the search returns p0 after exactly 2
\* iterations.
C10_TwoIterations ==
    (spc = "returned" /\ skind = "linear") => (sret = sroot /\ sk = 2)

\* C10 amended: on det(p) = p - p0 the first secant iterate is p0 exactly,
\* and when the first seed is not p0 itself the search returns p0 after
\* exactly 1 iteration.
C10_OneIteration ==
    skind = "linear" =>
        /\ sk = 1 => p2 = sroot
        /\ (spc = "returned" /\ seed1 # sroot) => (sret = sroot /\ sk = 1)

\* C10 witness: a search on the linear determinant, started away from the
\* root, has returned the root after one iteration.
C10_Witness ==
    /\ skind = "linear"
    /\ spc = "returned"
    /\ seed1 # sroot
    /\ sret = sroot
    /\ sk = 1

\* C11: a call with max_iters = N makes at most N secant iterations and at
\* most N + 2 determinant evaluations, and it does not go on iterating
\* past an iterate whose determinant is below tol*|det(first seed)|.
C11_IterationCap ==
    /\ sk <= smaxarg
    /\ nevals <= smaxarg + 2
    /\ (spc = "iter" /\ sk > 0) => ~AbsLess(det2, stden, det0)

\* C12: the update of line 898 is never evaluated with det1 = det2 (no
\* ZeroDivisionError, no nan iterate), and a call that returns has met the
\* tolerance or hands a failure status back: the value of line 923 is p2
\* alone, so a return without convergence carries no status.
C12_FailureStatus ==
    /\ sexc # "ZeroDivisionError"
    /\ ~p2.nan
    /\ spc = "returned" => AbsLess(det2, stden, det0)

\* ======================================================================
\* The reduced model and the calls that read it: computeFlutterMat,
\* computeFlutterDet, computeFlutterMode, computeFrozenDeriv and
\* velocitySweep.  p and omega are counted in units of 1e-3.
\* ======================================================================
NAdd(x, y) ==
    IF x.nan \/ y.nan THEN NaN ELSE CN(x.re + y.re, x.im + y.im)
NScale(c, x) == IF x.nan THEN NaN ELSE CN(c * x.re, c * x.im)
Sq(p) == Cx(p.re * p.re - p.im * p.im, 2 * p.re * p.im)

\* abs(x) < abs(y)/tden, the test of lines 920 and 997, written without
\* the product Norm2(x)*tden*tden, which leaves the integers for 1e-6
AbsLessWide(x, tden, y) ==
    IF x.nan \/ y.nan THEN FALSE
    ELSE /\ Norm2(y) > 0
         /\ Norm2(x) <= ((Norm2(y) - 1) \div tden) \div tden

\* The reduced model of use_modes = True with r = MaxModes: Kr is the
\* diagonal of omega[k]^2 (line 658); the vectors of Qm and the columns of
\* the aerodynamic arrays are abstracted to one number each.
Omegas == {[k \in 1..MaxModes |-> 10 * k]}
KrOf(om) ==
    [i \in 1..Len(om) |-> [j \in 1..Len(om) |->
        IF i = j THEN om[i] * om[i] ELSE 0]]

\* The determinant of the flutter matrix as a function of p, the velocity
\* and the frequency it is normalised with: linear in p, with a root that
\* is fixed (slope 0) or moves to the right with the velocity (slope 1).
SweepRoot(slope, om, u) == CN(10 * slope * u - 50, om)
DetAt(u, p, om) == FlutterDet("linear", SweepRoot(rslope, om, u), p)

\* Lines 314-319 without the copy: F is Kr itself, so the diagonal term is
\* added to Kr
BuildFAliased(kr, p, a) ==
    LET f == [i \in 1..Len(kr) |-> [j \in 1..Len(kr) |->
                 Cx(kr[i][j] + a + (IF i = j THEN Sq(p).re ELSE 0),
                    IF i = j THEN Sq(p).im ELSE 0)]]
    IN  [F |-> f,
         Kr |-> [i \in 1..Len(kr) |-> [j \in 1..Len(kr) |-> f[i][j].re]]]

\* computeFlutterMat, lines 314-338: F is a fresh array that receives the
\* values of Kr, p^2 on its diagonal and the aerodynamic term a (external);
\* Kr is left as it was.
BuildF(kr, p, a) ==
    LET f == [i \in 1..Len(kr) |-> [j \in 1..Len(kr) |->
                 Cx(kr[i][j] + a + (IF i = j THEN Sq(p).re ELSE 0),
                    IF i = j THEN Sq(p).im ELSE 0)]]
    IN  [F |-> f, Kr |-> kr]

\* The secant loop of lines 896-921 and 975-998 from iteration n on: the
\* iterates are evaluated on the determinant with the given root; the loop
\* ends at the first iterate below the tolerance, at the cap, or on a zero
\* denominator that raises.  Once an iterate is nan every later one is, and
\* the loop runs to the cap.
RECURSIVE SecantRun(_, _, _, _, _, _, _, _, _, _)
SecantRun(q1, q2, d1, d2, d0, root, n, cap, tden, zde) ==
    IF n >= cap
    THEN [p |-> q2, conv |-> FALSE, n |-> n, exc |-> ""]
    ELSE IF q2.nan
    THEN [p |-> NaN, conv |-> FALSE, n |-> cap, exc |-> ""]
    ELSE IF zde /\ IsZero(NSub(d1, d2))
    THEN [p |-> q2, conv |-> FALSE, n |-> n, exc |-> "ZeroDivisionError"]
    ELSE LET pnew == SecantNew(q1, q2, d1, d2)
             dnew == FlutterDet("linear", root, pnew)
         IN  IF AbsLessWide(dnew, tden, d0)
             THEN [p |-> pnew, conv |-> TRUE, n |-> n + 1, exc |-> ""]
             ELSE SecantRun(q2, pnew, d2, dnew, d0, root, n + 1, cap,
                            tden, zde)

\* Arguments of the single calls
Vels == {1, 2}
SampleP == {CN(-1, 1), CN(0, 2)}

\* The sequences of velocity samples: 1, 2, 3, ... or 1, 2, 4, 5, 7, ...
USeqs(n) == {[i \in 1..n |-> i + g * ((i - 1) \div 2)] : g \in 0..1}

\* What the module-level name U, which dlm4py.py never binds, can be when
\* velocitySweep reads it: unbound, or bound by the client to the samples
\* of the call or to a list of other velocities
GlobalUs(uv) ==
    {[bound |-> FALSE, val |-> <<>>], [bound |-> TRUE, val |-> uv],
     [bound |-> TRUE, val |-> [i \in 1..Len(uv) |-> uv[i] + 1]]}

\* The object after setUpSubspace has returned
InitFlutter ==
    /\ hasZero = FALSE
    /\ VecIdle
    /\ GmresIdle
    /\ SubIdle
    /\ SecIdle
    /\ selfOmega \in Omegas
    /\ Kr = KrOf(selfOmega)
    /\ Qm = [k \in 1..MaxModes |-> k]
    /\ Qm_modes = [k \in 1..MaxModes |-> 2 * k]
    /\ Qm_vwash = [k \in 1..MaxModes |-> k]
    /\ Qm_dwash = [k \in 1..MaxModes |-> -k]
    /\ rslope \in 0..1
    /\ Dtrans = NoDtrans
    /\ temp = "setUpSubspace"
    /\ fcall = NoCall
    /\ gU = [bound |-> FALSE, val |-> <<>>]
    /\ SweepIdle

\* The frame of a velocitySweep call is gone when the next call starts
ResetSweep ==
    /\ rho' = 0 /\ Uvals' = <<>> /\ nmodes' = 0 /\ pvals' = <<>>
    /\ kmode' = 0 /\ si' = 0 /\ swpc' = "idle" /\ swexc' = ""
    /\ swline' = 0 /\ sseed1' = CN(0, 0) /\ sseed2' = CN(0, 0)
    /\ sreads' = {} /\ slast' = NoSample /\ evalU' = {} /\ sqinf2' = 0
    /\ written' = {} /\ unconv' = {}

\* What one call outside a sweep leaves: its result, the influence matrix
\* of its last determinant or matrix evaluation, Kr as the last
\* computeFlutterMat left it, the scratch vector
FrameCall(op, exc, F, val, dt, kr, tmp) ==
    /\ fcall' = [op |-> op, exc |-> exc, F |-> F, val |-> val]
    /\ Dtrans' = dt
    /\ Kr' = kr
    /\ temp' = tmp
    /\ ResetSweep
    /\ UNCHANGED <<Qm, Qm_modes, Qm_vwash, Qm_dwash, selfOmega, rslope, gU,
                   vecVars, hasZero, gmresVars, subVars, secVars>>

\* computeInfluenceMatrix(U, omega_aero, Mach), lines 392-406: Dtrans is
\* overwritten; of its content the model keeps the velocity
InfluenceAt(u) == [set |-> TRUE, U |-> u]

\* F = computeFlutterMat(U, p, qinf, Mach, len(Qm), Kr, ...), lines 304-340
CallFlutterMat ==
    /\ swpc # "run"
    /\ \E u \in Vels, p \in SampleP, a \in 0..1 :
           LET b == BuildF(Kr, p, a)
           IN  FrameCall("computeFlutterMat", "", b.F, CN(0, 0),
                         InfluenceAt(u), b.Kr, temp)

\* computeFlutterDet(U, p, qinf, Mach, len(Qm), Kr, ..., omega[k]), lines
\* 342-355
CallFlutterDet ==
    /\ swpc # "run"
    /\ \E u \in Vels, p \in SampleP, k \in 1..MaxModes :
           FrameCall("computeFlutterDet", "", <<>>, DetAt(u, p, selfOmega[k]),
                     InfluenceAt(u), BuildF(Kr, p, 0).Kr, temp)

\* computeFlutterMode(rho, Uval, Mach, kmode, pinit, max_iters, tol), lines
\* 866-923, as one call: the seeds, their determinants, the loop, the
\* return of p2 or the ZeroDivisionError.
CallFlutterMode ==
    /\ swpc # "run"
    /\ \E u \in Vels, k \in 1..MaxModes, td \in 1..MaxTolDen, zde \in BOOLEAN,
          usePinit \in BOOLEAN :
           LET om == selfOmega[k]
               q1 == IF usePinit THEN SweepRoot(rslope, om, u)
                     ELSE CN(-Milli, om)
               q2 == CN(q1.re, q1.im + 1)
               d1 == DetAt(u, q1, om)
               d2 == DetAt(u, q2, om)
               run == SecantRun(q1, q2, d1, d2, d1, SweepRoot(rslope, om, u),
                                0, HardIters, td, zde)
               kr2 == BuildF(BuildF(Kr, q1, 0).Kr, q2, 0).Kr
           IN  FrameCall("computeFlutterMode", run.exc, <<>>, run.p,
                         InfluenceAt(u), kr2, temp)

\* computeFrozenDeriv(rho, Uval, Mach, p, num_design_vars), lines 762-864:
\* the flutter matrix at p and at p + dh, the eigenvectors of a copy of it,
\* combinations of the vectors of Qm in fresh vectors, products written to
\* self.temp
CallFrozenDeriv ==
    /\ swpc # "run"
    /\ \E u \in Vels, p \in SampleP :
           LET kr2 == BuildF(BuildF(Kr, p, 0).Kr, p, 0).Kr
           IN  FrameCall("computeFrozenDeriv", "", <<>>, CN(0, 0),
                         InfluenceAt(u), kr2, "computeFrozenDeriv")

\* ------------------------------------------------------- velocitySweep
\* Lines 941-960 with the first seed of sample i = 3, 4, ... formed like
\* the one of sample 2
SweepSeedLinear(pv, om, k, i) ==
    IF i = 1 THEN CN(-Tenth, om[k])
    ELSE IF i = 2 THEN pv[k][1]
    ELSE NSub(NScale(2, pv[k][i - 1]), pv[k][i - 2])

\* Lines 941-960, the first seed of sample i of mode k (both counted from
\* 1): -0.1 + 1j*omega[k], then the last root, then the extrapolation of
\* the last two, then of the last three roots of the mode
SweepSeed(pv, om, k, i) ==
    IF i = 1 THEN CN(-Tenth, om[k])
    ELSE IF i = 2 THEN pv[k][1]
    ELSE IF i = 3 THEN NSub(NScale(2, pv[k][2]), pv[k][1])
    ELSE NAdd(NSub(NScale(3, pv[k][i - 1]), NScale(3, pv[k][i - 2])),
              pv[k][i - 3])

\* The cells of pvals that lines 941-960 read for sample i of mode k
SeedCells(k, i) ==
    IF i = 1 THEN {}
    ELSE IF i = 2 THEN {<<k, 1>>}
    ELSE IF i = 3 THEN {<<k, 2>>, <<k, 1>>}
    ELSE {<<k, i - 1>>, <<k, i - 2>>, <<k, i - 3>>}

\* A sweep is running
SweepFrame ==
    UNCHANGED <<Qm, Qm_modes, Qm_vwash, Qm_dwash, selfOmega, rslope, temp,
                fcall, gU, rho, Uvals, nmodes, vecVars, hasZero,
                gmresVars, subVars, secVars>>

\* velocitySweep(rho, Uvals, Mach, nmodes), lines 925-935, with no sample,
\* one sample or MaxVals samples: the table of nmodes x nvals zeros
SweepBegin ==
    /\ swpc # "run"
    /\ \E r \in 1..2, nm \in 0..MaxModes, nv \in {0, 1, MaxVals} :
         \E uv \in USeqs(nv) :
            \E g \in GlobalUs(uv) :
               /\ rho' = r
               /\ nmodes' = nm
               /\ Uvals' = uv
               /\ gU' = g
               /\ pvals' = [k \in 1..nm |-> [i \in 1..nv |-> CN(0, 0)]]
    /\ kmode' = 1
    /\ si' = 1
    /\ swpc' = "run"
    /\ swexc' = ""
    /\ swline' = 0
    /\ sseed1' = CN(0, 0) /\ sseed2' = CN(0, 0)
    /\ sreads' = {} /\ slast' = NoSample /\ evalU' = {} /\ sqinf2' = 0
    /\ written' = {} /\ unconv' = {}
    /\ fcall' = [NoCall EXCEPT !.op = "velocitySweep"]
    /\ UNCHANGED <<modelVars, rslope, Dtrans, temp, vecVars, hasZero,
                   gmresVars, subVars, secVars>>

\* One pass of the inner loop, lines 937-1001, for sample si of mode kmode:
\* qinf, the seeds and their determinants at Uvals[i], the secant loop with
\* its determinants at U[i], the root stored in the table.  The determinants
\* are numpy complex numbers (line 355): a zero denominator gives nan.  With
\* U unbound the first iteration raises NameError at line 985.
SweepSample ==
    /\ swpc = "run"
    /\ kmode <= nmodes
    /\ si <= Len(Uvals)
    /\ LET om == selfOmega[kmode]
           ua == Uvals[si]
           s1 == SweepSeed(pvals, selfOmega, kmode, si)
           s2 == NAdd(s1, CN(1, 1))
           d1 == DetAt(ua, s1, om)
           d2 == DetAt(ua, s2, om)
           kr2 == BuildF(BuildF(Kr, s1, 0).Kr, s2, 0).Kr
       IN  /\ sseed1' = s1
           /\ sseed2' = s2
           /\ sreads' = SeedCells(kmode, si)
           /\ slast' = [k |-> kmode, i |-> si]
           /\ sqinf2' = rho * ua * ua
           /\ Kr' = kr2
           /\ IF ~gU.bound
              THEN /\ swpc' = "raised"
                   /\ swexc' = "NameError"
                   /\ swline' = 985
                   /\ evalU' = {ua}
                   /\ Dtrans' = InfluenceAt(ua)
                   /\ UNCHANGED <<pvals, si, written, unconv>>
              ELSE LET ub == gU.val[si]
                       run == SecantRun(s1, s2, d1, d2, d1,
                                        SweepRoot(rslope, om, ub), 0,
                                        SweepIters, SweepTolDen, FALSE)
                   IN  /\ evalU' = {ua, ub}
                       /\ Dtrans' = InfluenceAt(ub)
                       /\ pvals' = [pvals EXCEPT ![kmode][si] = run.p]
                       /\ written' = written \cup {<<kmode, si>>}
                       /\ unconv' = IF run.conv THEN unconv
                                    ELSE unconv \cup {<<kmode, si>>}
                       /\ si' = si + 1
                       /\ UNCHANGED <<swpc, swexc, swline>>
    /\ UNCHANGED kmode
    /\ SweepFrame

\* Lines 1003-1006 after the samples of a mode: the print reads i and U[i]
SweepModeEnd ==
    /\ swpc = "run"
    /\ kmode <= nmodes
    /\ si > Len(Uvals)
    /\ IF Len(Uvals) = 0 \/ ~gU.bound
       THEN /\ swpc' = "raised"
            /\ swexc' = "NameError"
            /\ swline' = 1006
            /\ UNCHANGED <<kmode, si>>
       ELSE /\ kmode' = kmode + 1
            /\ si' = 1
            /\ UNCHANGED <<swpc, swexc, swline>>
    /\ UNCHANGED <<Kr, Dtrans, pvals, sseed1, sseed2, sreads, slast, evalU,
                   sqinf2, written, unconv>>
    /\ SweepFrame

\* Line 1009: return pvals
SweepReturn ==
    /\ swpc = "run"
    /\ kmode > nmodes
    /\ swpc' = "returned"
    /\ UNCHANGED <<Kr, Dtrans, pvals, kmode, si, swexc, swline, sseed1,
                   sseed2, sreads, slast, evalU, sqinf2, written, unconv>>
    /\ SweepFrame

NextFlutter ==
    \/ CallFlutterMat
    \/ CallFlutterDet
    \/ CallFlutterMode
    \/ CallFrozenDeriv
    \/ SweepBegin
    \/ SweepSample
    \/ SweepModeEnd
    \/ SweepReturn

SpecFlutter == InitFlutter /\ [][NextFlutter]_vars

\* -------------------------------- velocitySweep and the frame: the claims
\* a*x + b*y + c*z on three cells of the table; nan when one of them is
Comb3(a, x, b, y, c, z) ==
    IF x.nan \/ y.nan \/ z.nan THEN NaN
    ELSE CN(a * x.re + b * y.re + c * z.re, a * x.im + b * y.im + c * z.im)

\* The first seed the sweep is to use for the sample it searched last
ExpectedSeed ==
    LET row == pvals[slast.k]
        i == slast.i
    IN  IF i = 1 THEN CN(-Tenth, selfOmega[slast.k])
        ELSE IF i = 2 THEN row[1]
        ELSE IF i = 3 THEN Comb3(2, row[2], -1, row[1], 0, row[1])
        ELSE Comb3(3, row[i - 1], -3, row[i - 2], 1, row[i - 3])

\* C13: for every mode k and sample i the first seed is formed from
\* omega[k] (i = 0: -0.1 + 1j*omega[k]), p[k,0] (i = 1), 2p[k,1] - p[k,0]
\* (i = 2), 3p[k,i-1] - 3p[k,i-2] + p[k,i-3] (i >= 3); the second seed is
\* the first plus 1e-3 + 1e-3i; every cell read for a seed belongs to the
\* same mode, to an earlier sample, and has been written.
C13_SeedsFromOwnHistory ==
    slast.i > 0 =>
        /\ sseed1 = ExpectedSeed
        /\ sseed2 = (IF sseed1.nan THEN NaN
                     ELSE CN(sseed1.re + 1, sseed1.im + 1))
        /\ \A c \in sreads :
              c[1] = slast.k /\ c[2] < slast.i /\ c \in written

\* C13 witness: the fourth sample of the second mode has been searched from
\* a seed extrapolated from three converged roots of that mode, which is
\* not the last of them.
C13_Witness ==
    /\ slast = [k |-> 2, i |-> 4]
    /\ ~sseed1.nan
    /\ sreads \cap unconv = {}
    /\ sseed1 # pvals[2][3]
    /\ <<2, 4>> \in written

\* C14: every determinant of the search of sample i is evaluated at
\* Uvals[i] with qinf = 0.5*rho*Uvals[i]^2, the searches run to their end,
\* and the table that is returned has every cell written.
C14_SamplesAtTheirVelocity ==
    /\ slast.i > 0 =>
          /\ swexc = ""
          /\ evalU = {Uvals[slast.i]}
          /\ sqinf2 = rho * Uvals[slast.i] * Uvals[slast.i]
    /\ swpc = "returned" =>
          written = (1..nmodes) \X (1..Len(Uvals))

\* C15: a sample whose search ended without meeting the tolerance holds no
\* number in the table, is not read for the seed of a later sample, and
\* does not end the sweep.
C15_UnconvergedIsolated ==
    /\ \A c \in unconv : pvals[c[1]][c[2]].nan /\ c \notin sreads
    /\ unconv # {} => swexc = ""

\* C16: no call on the reduced model changes Kr, Qm, Qm_modes, Qm_vwash,
\* Qm_dwash or omega.
C16_ReducedModelReadOnly == [][UNCHANGED modelVars]_vars

\* C16 witness: a sweep has returned a table with roots in it after a
\* computeFrozenDeriv call, the influence matrix has been overwritten, and
\* Kr is the diagonal of omega^2 that setUpSubspace left.
C16_Witness ==
    /\ swpc = "returned"
    /\ written # {}
    /\ temp = "computeFrozenDeriv"
    /\ Dtrans.set
    /\ Kr = KrOf(selfOmega)

====
